---- MODULE Spec2Model ----
(***************************************************************************)
(* A model of the APOB inspection tool (crates apob and apob-cli).         *)
(*                                                                         *)
(* main() reads a blob, walks it into a list of items (Header, Padding,    *)
(* one Entry per record) and then either prints a text dump or hands the   *)
(* items to the interactive browser.  Every failure of the walk is a Rust  *)
(* panic (unwrap, assert_eq!, slice index); the model records the place    *)
(* of the panic in err.                                                    *)
(*                                                                         *)
(* A u32 is kept as the four bytes it occupies in the blob, least          *)
(* significant first (the tool is built for little-endian hosts, where     *)
(* zerocopy's FromBytes reinterprets the bytes in place), so that values   *)
(* such as 0xFFFF_0001 need no arithmetic beyond TLC's integers.           *)
(***************************************************************************)
EXTENDS Integers, Sequences, FiniteSets, TLC

VARIABLES
    data,       \* main: the bytes of the file
    args,       \* main: the parsed command line
    pc,         \* position in main: "main", "walk", "dump", "run", "poll", "exit", "panic"
    header,     \* main: the ApobHeader read at offset 0, Nothing before that
    entries,    \* main: the Vec<Entry> built by the walk
    pos,        \* main: the walk's position
    err,        \* the place of the panic, "none" while there is none
    stdout,     \* what the text dump has printed so far
    idx,        \* main: index of the next item the dump loop visits
    app,        \* the browser's App, Nothing unless the browser was started
    scroll_momentum,  \* App::run: the step of the next wheel event
    overflow_checks   \* the build: TRUE when integer overflow panics (a debug
                      \* build), FALSE when it wraps (a release build)

vars == <<data, args, pc, header, entries, pos, err, stdout, idx, app,
          scroll_momentum, overflow_checks>>

\* Option::None of a name (a group, a tag)
None == "None"

\* Option of anything else: Some(x) is the one-element sequence, Option::None the empty one
Some(x) == <<x>>

Nothing == <<>>

(***************************************************************************)
(* Bytes and little-endian words.                                          *)
(***************************************************************************)

\* s[from..to] of Rust, offsets counted from 0, `to` exclusive
Slice(s, from, to) == SubSeq(s, from + 1, to)

\* `x as usize` for a u32 held as four bytes, least significant first.
\* TLC's integers end at 2^31 - 1: every value from 2^31 on is kept as
\* 2^31 - 1, which the code only ever compares with the length of a blob.
AsUsize(w) ==
    IF w[4] >= 128 THEN 2147483647
    ELSE w[1] + 256 * w[2] + 65536 * w[3] + 16777216 * w[4]

\* the four bytes of a number below 2^31, least significant first
U32(n) == <<n % 256, (n \div 256) % 256, (n \div 65536) % 256, (n \div 16777216) % 256>>

RECURSIVE BitAnd(_, _, _)
\* a & b on the low n bits
BitAnd(a, b, n) ==
    IF n = 0 THEN 0
    ELSE (a % 2) * (b % 2) + 2 * BitAnd(a \div 2, b \div 2, n - 1)

\* a & b on u32
And32(a, b) == [i \in 1..4 |-> BitAnd(a[i], b[i], 8)]

\* !a on u32
Not32(a) == [i \in 1..4 |-> 255 - a[i]]

(***************************************************************************)
(* crate apob                                                              *)
(***************************************************************************)

APOB_SIG == <<65, 80, 79, 66>>

APOB_VERSION == <<24, 0, 0, 0>>

APOB_CANCELLED == <<0, 0, 255, 255>>

ApobGroup == <<"MEMORY", "DF", "CCX", "NBIO", "FCH", "PSP", "GENERAL", "SMBIOS", "FABRIC", "APCB">>

\* ApobGroup::from_repr
ApobGroupFromRepr(n) == IF n \in 1..Len(ApobGroup) THEN ApobGroup[n] ELSE None

HeaderSize == 16

EntrySize == 48

HeaderAlign == 4

EntryAlign == 4

\* group() without the mask: the cancellation bits reach from_repr
group_unmasked(self) == ApobGroupFromRepr(AsUsize(self.group))

\* ApobEntry::group: the group, or None when it is unknown
group(self) ==
    LET g == And32(self.group, Not32(APOB_CANCELLED))
    IN  ApobGroupFromRepr(AsUsize(g))

\* cancelled() testing for any bit of the mask instead of all of them
cancelled_any_bit(self) == And32(self.group, APOB_CANCELLED) # <<0, 0, 0, 0>>

\* ApobEntry::cancelled: the top 16 bits are all set
cancelled(self) == And32(self.group, APOB_CANCELLED) = APOB_CANCELLED

\* ref_from_prefix refusing a slice of exactly the size of T
RefFromPrefixStrict(s, at, size, align) ==
    /\ Len(s) - at > size
    /\ at % align = 0

\* zerocopy ref_from_prefix::<T> on s[at..]: enough bytes, and the address
\* (the buffer itself is word aligned) a multiple of T's alignment
RefFromPrefixOk(s, at, size, align) ==
    /\ Len(s) - at >= size
    /\ at % align = 0

\* the ApobHeader overlaid on the first 16 bytes
ReadHeader(s) ==
    [sig     |-> Slice(s, 0, 4),
     version |-> Slice(s, 4, 8),
     size    |-> Slice(s, 8, 12),
     offset  |-> Slice(s, 12, 16)]

\* the ApobEntry with the fields ty and inst read in the wrong order
ReadEntrySwapped(s, at) ==
    [group |-> Slice(s, at, at + 4),
     ty    |-> Slice(s, at + 8, at + 12),
     inst  |-> Slice(s, at + 4, at + 8),
     size  |-> Slice(s, at + 12, at + 16),
     hmac  |-> Slice(s, at + 16, at + 48)]

\* the ApobEntry overlaid on s[at .. at+48]
ReadEntry(s, at) ==
    [group |-> Slice(s, at, at + 4),
     ty    |-> Slice(s, at + 4, at + 8),
     inst  |-> Slice(s, at + 8, at + 12),
     size  |-> Slice(s, at + 12, at + 16),
     hmac  |-> Slice(s, at + 16, at + 48)]

(***************************************************************************)
(* The blobs the walk is run on.  A blob is built from a position          *)
(* dependent filler, a header written at offset 0 and record headers       *)
(* written one after the other from the header's offset, each advancing    *)
(* by its declared size; the length of the blob is chosen independently,   *)
(* so that records may be cut short, overrun the end or leave a tail.      *)
(***************************************************************************)

MaxRecords == 2

\* every filler byte is below 128, so that any four of them read as a u32
\* stay within TLC's integers
Filler(n) == [i \in 1..n |-> (i * 7 + 3) % 127]

\* s with the bytes b written at offset `at`, cut at the end of s
Put(s, at, b) ==
    [i \in 1..Len(s) |-> IF i > at /\ i <= at + Len(b) THEN b[i - at] ELSE s[i]]

KindTable ==
    << [group |-> <<1, 0, 0, 0>>,     ty |-> <<22, 0, 0, 0>>],   \* MEMORY, PMU training failure
       [group |-> <<9, 0, 255, 255>>, ty |-> <<9, 0, 0, 0>>],    \* FABRIC cancelled, memory map
       [group |-> <<7, 0, 0, 0>>,     ty |-> <<6, 0, 0, 0>>],    \* GENERAL, event log
       [group |-> <<11, 0, 0, 0>>,    ty |-> <<1, 0, 0, 0>>],    \* no such group
       [group |-> <<2, 0, 0, 0>>,     ty |-> <<3, 0, 0, 0>>] >>  \* DF

KindAt(k, i) == KindTable[((k + i - 2) % Len(KindTable)) + 1]

RECURSIVE PlaceRecords(_, _, _, _, _)
\* write the record headers of the declared sizes from offset `at` on
PlaceRecords(s, at, sizes, k, i) ==
    IF i > Len(sizes) THEN s
    ELSE LET kind == KindAt(k, i)
             rec  == kind.group \o kind.ty \o U32(i) \o U32(sizes[i])
         IN  PlaceRecords(Put(s, at, rec), at + sizes[i], sizes, k, i + 1)

MkBlob(len, sig, version, offset, sizes, k) ==
    LET hdr == sig \o version \o U32(len) \o U32(offset)
    IN  PlaceRecords(Put(Filler(len), 0, hdr), offset, sizes, k, 1)

DataLens == {8, 72, 128, 130, 184}

Offsets == {12, 16, 24, 72, 300}

Sizes == {0, 40, 48, 50, 56, 400}

SizeSeqs == UNION {[1..n -> Sizes] : n \in 0..MaxRecords}

Sigs == {APOB_SIG, <<65, 80, 79, 88>>}

Versions == {APOB_VERSION, <<25, 0, 0, 0>>}

ArgsSet ==
    { [interactive |-> TRUE,  raw |-> FALSE, decode |-> FALSE],
      [interactive |-> FALSE, raw |-> TRUE,  decode |-> FALSE],
      [interactive |-> FALSE, raw |-> FALSE, decode |-> TRUE] }

\* the state of main before its first statement, for a given file and command line
InitWith(blob, a) ==
    /\ data = blob
    /\ args = a
    /\ pc = "main"
    /\ header = Nothing
    /\ entries = <<>>
    /\ pos = 0
    /\ err = "none"
    /\ stdout = <<>>
    /\ idx = 0
    /\ app = Nothing
    /\ scroll_momentum = 1
    /\ overflow_checks \in BOOLEAN

Init ==
    \E len \in DataLens, sig \in Sigs, version \in Versions, offset \in Offsets,
       sizes \in SizeSeqs, k \in 1..Len(KindTable), a \in ArgsSet :
        \* a bad signature or version is tried on the layouts of one kind table row
        /\ (sig # APOB_SIG \/ version # APOB_VERSION) => k = 1
        /\ InitWith(MkBlob(len, sig, version, offset, sizes, k), a)

(***************************************************************************)
(* main: the walk                                                          *)
(***************************************************************************)

Panic(site) ==
    /\ pc' = "panic"
    /\ err' = site

\* the header read without the assertion on the version
header_fault_no_version(s) ==
    IF ~RefFromPrefixOk(s, 0, HeaderSize, HeaderAlign) THEN "header_prefix"
    ELSE IF ReadHeader(s).sig # APOB_SIG THEN "invalid signature"
    ELSE IF AsUsize(ReadHeader(s).offset) < HeaderSize THEN "padding_range"
    ELSE IF AsUsize(ReadHeader(s).offset) > Len(s) THEN "padding_range"
    ELSE "none"

\* the header read with a padding range that saturates to empty instead
\* of panicking when the offset lies inside the header
header_fault_no_lower_bound(s) ==
    IF ~RefFromPrefixOk(s, 0, HeaderSize, HeaderAlign) THEN "header_prefix"
    ELSE IF ReadHeader(s).sig # APOB_SIG THEN "invalid signature"
    ELSE IF ReadHeader(s).version # APOB_VERSION THEN "invalid version"
    ELSE IF AsUsize(ReadHeader(s).offset) > Len(s) THEN "padding_range"
    ELSE "none"

\* main.rs 49-63: the place where reading the header panics, "none" when
\* it does not: the overlay of the ApobHeader, the two assertions, the
\* range of the Padding item
header_fault(s) ==
    IF ~RefFromPrefixOk(s, 0, HeaderSize, HeaderAlign) THEN "header_prefix"
    ELSE IF ReadHeader(s).sig # APOB_SIG THEN "invalid signature"
    ELSE IF ReadHeader(s).version # APOB_VERSION THEN "invalid version"
    ELSE IF AsUsize(ReadHeader(s).offset) < HeaderSize THEN "padding_range"
    ELSE IF AsUsize(ReadHeader(s).offset) > Len(s) THEN "padding_range"
    ELSE "none"

\* main.rs 54-65: the Header and the Padding item
FirstEntries(s, h) ==
    << [offset |-> 0,
        entry  |-> [kind |-> "Header", h |-> h],
        data   |-> Slice(s, 0, HeaderSize)],
       [offset |-> HeaderSize,
        entry  |-> [kind |-> "Padding"],
        data   |-> Slice(s, HeaderSize, AsUsize(h.offset))] >>

\* main.rs 49-66: the header, its two checks, the first two items
ParseHeader ==
    /\ pc = "main"
    /\ LET fault == header_fault(data)
       IN  /\ header' = IF fault = "header_prefix" THEN header ELSE Some(ReadHeader(data))
           /\ IF fault # "none"
              THEN Panic(fault) /\ UNCHANGED <<entries, pos>>
              ELSE /\ entries' = FirstEntries(data, ReadHeader(data))
                   /\ pos' = AsUsize(ReadHeader(data).offset)
                   /\ pc' = "walk"
                   /\ err' = err
    /\ UNCHANGED <<data, args, stdout, idx, app, scroll_momentum, overflow_checks>>

\* the turn of the loop refusing a record that ends exactly at the end of the blob
walk_fault_off_by_one(s, at) ==
    IF ~RefFromPrefixOk(s, at, EntrySize, EntryAlign) THEN "entry_prefix"
    ELSE IF AsUsize(ReadEntry(s, at).size) >= Len(s) - at THEN "entry_size_range"
    ELSE IF EntrySize > AsUsize(ReadEntry(s, at).size) THEN "entry_header_range"
    ELSE "none"

\* the turn of the loop with a payload slice that saturates to empty
\* instead of panicking when the size is below the record header's
walk_fault_accepts_small(s, at) ==
    IF ~RefFromPrefixOk(s, at, EntrySize, EntryAlign) THEN "entry_prefix"
    ELSE IF AsUsize(ReadEntry(s, at).size) > Len(s) - at THEN "entry_size_range"
    ELSE "none"

\* main.rs 68-71: the place where one turn of the loop panics, "none" when
\* it does not: the overlay of the ApobEntry at `at`, then the two slices
\* &data[at..][..size] and [size_of_val(entry)..]
walk_fault(s, at) ==
    IF ~RefFromPrefixOk(s, at, EntrySize, EntryAlign) THEN "entry_prefix"
    ELSE IF AsUsize(ReadEntry(s, at).size) > Len(s) - at THEN "entry_size_range"
    ELSE IF EntrySize > AsUsize(ReadEntry(s, at).size) THEN "entry_header_range"
    ELSE "none"

\* the payload slice ending one byte early
EntryDataShort(s, at, size) == Slice(s, at + EntrySize, at + size - 1)

\* entry_data = &data[pos..][..entry.size][size_of_val(entry)..]
EntryData(s, at, size) == Slice(s, at + EntrySize, at + size)

\* pos += entry.size as usize
Advance(at, size) == at + size

\* main.rs 67-78: one turn of the while loop
WalkStep ==
    /\ pc = "walk"
    /\ pos < Len(data)
    /\ LET fault == walk_fault(data, pos)
           entry == ReadEntry(data, pos)
           size  == AsUsize(entry.size)
       IN  IF fault # "none"
           THEN Panic(fault) /\ UNCHANGED <<entries, pos>>
           ELSE /\ entries' = Append(entries,
                       [offset |-> pos,
                        entry  |-> [kind |-> "Entry", e |-> entry],
                        data   |-> EntryData(data, pos, size)])
                /\ pos' = Advance(pos, size)
                /\ UNCHANGED <<pc, err>>
    /\ UNCHANGED <<data, args, header, stdout, idx, app, scroll_momentum, overflow_checks>>

(***************************************************************************)
(* Specialized payloads                                                    *)
(***************************************************************************)

EVENT_LOG == 6

SYS_MEM_MAP == 9

MILAN_PMU_TRAIN_FAIL == 22

EventLogEvents == 64

PmuTfiEntries == 40

\* size_of::<MilanApobEventLog>(): count, padding, 64 events of four u32
EventLogSize == 4 + EventLogEvents * 16

\* size_of::<PmuTfi>(): nvalid, 40 entries of six u32
PmuTfiSize == 4 + PmuTfiEntries * 24

\* size_of::<ApobSysMemMap>(): high_phys, hole_count, padding
SysMemMapSize == 16

\* size_of::<ApobSysMemMapHole>(): base, size, ty, padding
SysMemMapHoleSize == 24

\* specialized() matching the group word with its cancellation bits
specialized_unmasked(i) ==
    IF i.kind = "Entry" THEN
        LET g == group_unmasked(i.e)
        IN  IF g = "GENERAL" /\ i.e.ty = U32(EVENT_LOG) THEN "EventLog"
            ELSE IF g = "FABRIC" /\ i.e.ty = U32(SYS_MEM_MAP) THEN "MemMap"
            ELSE IF g = "MEMORY" /\ i.e.ty = U32(MILAN_PMU_TRAIN_FAIL) THEN "PmuTrainingFailure"
            ELSE None
    ELSE IF i.kind = "Header" THEN "Header"
    ELSE None

\* App::specialized: the tag of the specialized view of an item, or None
specialized(i) ==
    IF i.kind = "Entry" THEN
        LET g == group(i.e)
        IN  IF g = "GENERAL" /\ i.e.ty = U32(EVENT_LOG) THEN "EventLog"
            ELSE IF g = "FABRIC" /\ i.e.ty = U32(SYS_MEM_MAP) THEN "MemMap"
            ELSE IF g = "MEMORY" /\ i.e.ty = U32(MILAN_PMU_TRAIN_FAIL) THEN "PmuTrainingFailure"
            ELSE None
    ELSE IF i.kind = "Header" THEN "Header"
    ELSE None

\* The overlay of a specialized structure on a payload d (a Vec of its own,
\* so aligned), as decode_item and render_specialized do it: the number of
\* rows listed, or the place of the panic.
Overlay(tag, d) ==
    IF tag = "EventLog" THEN
        IF Len(d) < EventLogSize THEN [ok |-> FALSE, site |-> "event_log_prefix"]
        ELSE LET count == d[1] + 256 * d[2]
             IN  IF count > EventLogEvents
                 THEN [ok |-> FALSE, site |-> "event_log_count"]
                 ELSE [ok |-> TRUE, rows |-> count]
    ELSE IF tag = "MemMap" THEN
        IF Len(d) < SysMemMapSize THEN [ok |-> FALSE, site |-> "mem_map_prefix"]
        ELSE LET holes == (Len(d) - SysMemMapSize) \div SysMemMapHoleSize
                 hole_count == AsUsize(Slice(d, 8, 12))
             IN  IF (Len(d) - SysMemMapSize) % SysMemMapHoleSize # 0
                 THEN [ok |-> FALSE, site |-> "mem_map_holes"]
                 ELSE IF hole_count > holes
                 THEN [ok |-> FALSE, site |-> "mem_map_count"]
                 ELSE [ok |-> TRUE, rows |-> hole_count]
    ELSE IF tag = "PmuTrainingFailure" THEN
        IF Len(d) < PmuTfiSize THEN [ok |-> FALSE, site |-> "pmu_tfi_prefix"]
        ELSE LET nvalid == AsUsize(Slice(d, 0, 4))
             IN  IF nvalid > PmuTfiEntries
                 THEN [ok |-> FALSE, site |-> "pmu_tfi_count"]
                 ELSE [ok |-> TRUE, rows |-> nvalid]
    ELSE [ok |-> TRUE, rows |-> 0]

\* decode_item: what it prints, and whether it returns
decode_item(entry, d) ==
    LET tag == specialized([kind |-> "Entry", e |-> entry])
        o   == Overlay(tag, d)
    IN  IF tag = None THEN [ok |-> TRUE, out |-> <<>>]
        ELSE IF o.ok
        THEN [ok |-> TRUE, out |-> <<[kind |-> "decoded", tag |-> tag, rows |-> o.rows]>>]
        \* the event log prints its title before it overlays the structure
        ELSE [ok |-> FALSE, site |-> o.site,
              out |-> IF tag = "EventLog" THEN <<[kind |-> "title", tag |-> tag]>> ELSE <<>>]

(***************************************************************************)
(* main: the text dump                                                     *)
(***************************************************************************)

\* main.rs 85-90: the header line and the column titles
StartDump ==
    /\ pc = "walk"
    /\ pos >= Len(data)
    /\ ~args.interactive
    /\ stdout' = <<[kind |-> "header", h |-> header[1]], [kind |-> "columns"]>>
    /\ idx' = 1
    /\ pc' = "dump"
    /\ UNCHANGED <<data, args, header, entries, pos, err, app, scroll_momentum, overflow_checks>>

\* main.rs 95-102: the line of the listing for a record
ListRow(item) ==
    [kind   |-> "row",
     offset |-> item.offset,
     group  |-> group(item.entry.e),
     ty     |-> And32(item.entry.e.ty, Not32(APOB_CANCELLED)),
     inst   |-> item.entry.e.inst,
     size   |-> AsUsize(item.entry.e.size) - EntrySize]

\* main.rs 91-109: one turn of the loop over the items
DumpItem ==
    /\ pc = "dump"
    /\ idx <= Len(entries)
    /\ LET item == entries[idx]
           next == IF idx = Len(entries) THEN "exit" ELSE "dump"
       IN  IF item.entry.kind # "Entry"
           THEN /\ pc' = next
                /\ UNCHANGED <<stdout, err>>
           ELSE IF group(item.entry.e) = None
           THEN /\ Panic("dump_group_unwrap")
                /\ UNCHANGED stdout
           ELSE LET row == <<ListRow(item)>>
                    hex == IF args.raw THEN <<[kind |-> "hex", bytes |-> item.data]>> ELSE <<>>
                    dec == decode_item(item.entry.e, item.data)
                IN  IF ~args.decode
                    THEN /\ stdout' = stdout \o row \o hex
                         /\ pc' = next
                         /\ err' = err
                    ELSE /\ stdout' = stdout \o row \o hex \o dec.out
                         /\ IF dec.ok THEN pc' = next /\ err' = err
                                      ELSE Panic(dec.site)
    /\ idx' = idx + 1
    /\ UNCHANGED <<data, args, header, entries, pos, app, scroll_momentum, overflow_checks>>

(***************************************************************************)
(* The browser: construction and the moves of the two selections           *)
(***************************************************************************)

DivCeil(a, b) == (a + b - 1) \div b

SaturatingSub(a, b) == IF a > b THEN a - b ELSE 0

\* data_scroll_cache.get(&i).cloned().unwrap_or(0)
CacheGet(cache, i) == IF i \in DOMAIN cache THEN cache[i] ELSE 0

\* data_scroll_cache.insert(j, i)
CacheInsert(cache, j, i) ==
    [x \in DOMAIN cache \cup {j} |-> IF x = j THEN i ELSE cache[x]]

\* set_item_scroll keeping the page count of the item selected before
set_item_scroll_keeps_pages(a, i) ==
    [a EXCEPT !.item_state.selected = Some(i),
              !.data_state.selected = Some(CacheGet(a.data_scroll_cache, i))]

\* set_item_scroll starting every item at its first row
set_item_scroll_from_top(a, i) ==
    [a EXCEPT !.item_state.selected = Some(i),
              !.data_state.selected = Some(0),
              !.data_scroll_max = DivCeil(Len(a.items[i + 1].data), a.data_width)]

\* App::set_item_scroll; the items are counted from 0 as in the code
set_item_scroll(a, i) ==
    [a EXCEPT !.item_state.selected = Some(i),
              !.data_state.selected = Some(CacheGet(a.data_scroll_cache, i)),
              !.data_scroll_max = DivCeil(Len(a.items[i + 1].data), a.data_width)]

\* App::set_data_scroll
set_data_scroll(a, i) ==
    [a EXCEPT !.data_scroll_cache =
                  IF a.item_state.selected # Nothing
                  THEN CacheInsert(a.data_scroll_cache, a.item_state.selected[1], i)
                  ELSE a.data_scroll_cache,
              !.data_state.selected = Some(i)]

InitialWidth == 8

InitialWindowHeight == 16

\* App::new
AppNew(items) ==
    set_item_scroll(
        [items             |-> items,
         item_state        |-> [selected |-> Some(0), offset |-> 0],
         data_state        |-> [selected |-> Some(0), offset |-> 0],
         data_scroll_cache |-> [x \in {} |-> 0],
         data_scroll_max   |-> 1,
         data_grouping     |-> "Byte",
         data_width        |-> InitialWidth,
         data_endian       |-> "Little",
         data_focus        |-> FALSE,
         data_colors       |-> FALSE,
         specialized_state |-> None,
         window_height     |-> InitialWindowHeight], 0)

\* resize_data rescaling the row of the selected item and no remembered row
resize_data_selected_only(a, data_width) ==
    IF data_width = a.data_width THEN a
    ELSE LET moved == IF a.data_state.selected # Nothing
                      THEN set_data_scroll(a,
                               (a.data_state.selected[1] * a.data_width) \div data_width)
                      ELSE a
         IN  [moved EXCEPT !.data_width = data_width]

\* resize_data dividing before it multiplies
resize_data_divides_first(a, data_width) ==
    IF data_width = a.data_width THEN a
    ELSE LET rescaled == [a EXCEPT !.data_scroll_cache =
                              [k \in DOMAIN a.data_scroll_cache |->
                                  (a.data_scroll_cache[k] \div data_width) * a.data_width]]
             moved == IF a.data_state.selected # Nothing
                      THEN set_data_scroll(rescaled,
                               (a.data_state.selected[1] \div data_width) * a.data_width)
                      ELSE rescaled
         IN  [moved EXCEPT !.data_width = data_width]

\* App::resize_data
resize_data(a, data_width) ==
    IF data_width = a.data_width THEN a
    ELSE LET rescaled == [a EXCEPT !.data_scroll_cache =
                              [k \in DOMAIN a.data_scroll_cache |->
                                  (a.data_scroll_cache[k] * a.data_width) \div data_width]]
             moved == IF a.data_state.selected # Nothing
                      THEN set_data_scroll(rescaled,
                               (a.data_state.selected[1] * a.data_width) \div data_width)
                      ELSE rescaled
         IN  [moved EXCEPT !.data_width = data_width]

Min(a, b) == IF a < b THEN a ELSE b

\* next_item_row stepping one item further than it was asked to
next_item_row_one_more(a, d) ==
    set_item_scroll(a,
        IF a.item_state.selected # Nothing
        THEN Min(a.item_state.selected[1] + d + 1, Len(a.items) - 1)
        ELSE 0)

\* App::next_item_row
next_item_row(a, d) ==
    set_item_scroll(a,
        IF a.item_state.selected # Nothing
        THEN Min(a.item_state.selected[1] + d, Len(a.items) - 1)
        ELSE 0)

\* App::prev_item_row
prev_item_row(a, d) ==
    set_item_scroll(a,
        IF a.item_state.selected # Nothing
        THEN SaturatingSub(a.item_state.selected[1], d)
        ELSE 0)

\* next_data_row evaluates data_scroll_max - 1 on usize with data_scroll_max = 0
next_data_row_underflows(a) ==
    a.data_state.selected # Nothing /\ a.data_scroll_max = 0

\* App::next_data_row where it does not panic: data_scroll_max - 1 wraps to
\* usize::MAX when data_scroll_max is 0, and the minimum is then i + d
next_data_row(a, d) ==
    set_data_scroll(a,
        IF a.data_state.selected = Nothing THEN 0
        ELSE IF a.data_scroll_max = 0 THEN a.data_state.selected[1] + d
        ELSE Min(a.data_state.selected[1] + d, a.data_scroll_max - 1))

\* App::prev_data_row
prev_data_row(a, d) ==
    set_data_scroll(a,
        IF a.data_state.selected # Nothing
        THEN SaturatingSub(a.data_state.selected[1], d)
        ELSE 0)

(***************************************************************************)
(* The browser: one frame                                                  *)
(***************************************************************************)

ItemListWidth == 45

WideRow == 16

NarrowRow == 8

\* render_data's choice of the row width: OFFSET_COL + 1 + 16 * 3 + 16 columns fit
RowWidth(area_width) == IF area_width - 3 >= 8 + 1 + WideRow * 3 + WideRow THEN WideRow ELSE NarrowRow

\* render_table: entry.group().unwrap() on every record of the list
RenderTableOk(items) ==
    \A n \in 1..Len(items) :
        items[n].entry.kind = "Entry" => group(items[n].entry.e) # None

\* the terminal sizes the frames are drawn at
FrameAreas == { [width |-> 80, height |-> 24], [width |-> 140, height |-> 40] }

\* the same and two small terminals: one of three lines, one narrower than
\* the item list
SmallAreas ==
    FrameAreas \cup { [width |-> 80, height |-> 3], [width |-> 40, height |-> 24] }

\* a Table that selects its first row whenever it is rendered
TableRender_selects_first(st, nrows, w, h) == [selected |-> Some(0), offset |-> 0]

\* frame.render_stateful_widget(t, area, state) for a Table of nrows rows of
\* one line under a header line, in a Block with all four borders, on an
\* area of w columns and h lines: what ratatui's Table does to the
\* TableState.  Nothing when the area inside the borders is empty;
\* otherwise a selection beyond the last row is moved to the last row, a
\* selection in a Table without rows is cleared (and the offset with it), and
\* the offset is moved until the selected row lies in the h - 3 lines left
\* for the rows.
TableRender(st, nrows, w, h) ==
    IF w <= 2 \/ h <= 2 THEN st
    ELSE IF nrows = 0 THEN [selected |-> Nothing, offset |-> 0]
    ELSE LET sel   == IF st.selected # Nothing /\ st.selected[1] >= nrows
                      THEN Some(nrows - 1) ELSE st.selected
             lines == h - 3
             first == IF sel # Nothing
                      THEN Min(Min(st.offset, nrows - 1), sel[1])
                      ELSE Min(st.offset, nrows - 1)
         IN  [selected |-> sel,
              offset   |-> IF sel # Nothing /\ sel[1] >= first + lines
                           THEN sel[1] + 1 - lines ELSE first]

\* render_specialized making a state only when none is stored
needs_reset_when_absent(st, s) == IF st = None THEN s ELSE st

\* app.rs 299-316: needs_reset; the stored state is kept when it has the
\* tag s and made anew for s when it has not.  Of a SpecializedState the
\* tag is kept: its TableState is never given a selection
needs_reset(st, s) == IF st # s THEN s ELSE st

\* App::draw on a frame of the given area in a build with or without
\* overflow checks: the App after it, or the place of the panic
draw(a, area, checks) ==
    LET left    == Min(ItemListWidth, area.width)
        right   == area.width - left
        a1      == [a EXCEPT !.window_height = SaturatingSub(area.height, 3),
                             !.item_state = TableRender(a.item_state, Len(a.items),
                                                        left, area.height)]
        sel     == a1.items[a1.item_state.selected[1] + 1]
        tag     == IF a1.item_state.selected = Nothing THEN None ELSE specialized(sel.entry)
        \* Fill(1), Length(1) or Fill(1), Fill(1), Length(1) on the right column
        rest    == SaturatingSub(area.height, 1)
        data_h  == IF tag = None THEN rest ELSE DivCeil(rest, 2)
        spec_h  == rest \div 2
        \* area.width - 3 on u16: below 3 it wraps to more than 65532
        width   == IF right < 3 THEN WideRow ELSE RowWidth(right)
        a2      == resize_data(a1, width)
        a3      == [a2 EXCEPT !.data_state =
                       TableRender(a2.data_state, DivCeil(Len(sel.data), width),
                                   right, data_h)]
        o       == Overlay(tag, sel.data)
    IN  IF ~RenderTableOk(a.items) THEN [ok |-> FALSE, site |-> "table_group_unwrap"]
        ELSE IF right < 3 /\ checks THEN [ok |-> FALSE, site |-> "data_width_underflow"]
        ELSE IF tag = None THEN [ok |-> TRUE, app |-> [a3 EXCEPT !.specialized_state = None]]
        ELSE IF ~o.ok THEN [ok |-> FALSE, site |-> o.site]
        \* rect.height -= 3 on u16
        ELSE IF tag = "MemMap" /\ spec_h < 3 /\ checks
        THEN [ok |-> FALSE, site |-> "mem_map_rect_underflow"]
        ELSE [ok |-> TRUE,
              app |-> [a3 EXCEPT !.specialized_state = needs_reset(a.specialized_state, tag)]]

\* main.rs 80-83: the terminal is set up and the App built from the items
StartApp ==
    /\ pc = "walk"
    /\ pos >= Len(data)
    /\ args.interactive
    /\ app' = Some(AppNew(entries))
    /\ pc' = "run"
    /\ UNCHANGED <<data, args, header, entries, pos, err, stdout, idx, scroll_momentum, overflow_checks>>

\* app.rs 96: the frame drawn at the top of the event loop, at the size
\* the terminal has then
DrawOn(areas) ==
    /\ pc = "run"
    /\ \E area \in areas :
        LET d == draw(app[1], area, overflow_checks)
        IN  IF d.ok THEN /\ app' = Some(d.app)
                         /\ pc' = "poll"
                         /\ err' = err
                    ELSE /\ Panic(d.site)
                         /\ app' = app
    /\ UNCHANGED <<data, args, header, entries, pos, stdout, idx, scroll_momentum, overflow_checks>>

Draw == DrawOn(FrameAreas)

\* the frame drawn on a terminal that may also be small
DrawSmall == DrawOn(SmallAreas)

Next ==
    \/ ParseHeader
    \/ WalkStep
    \/ StartDump
    \/ DumpItem
    \/ StartApp
    \/ Draw

Spec == Init /\ [][Next]_vars

\* main runs to its end or to a panic: a step that can be taken is taken
LiveSpec == Init /\ [][Next]_vars /\ WF_vars(Next)

(***************************************************************************)
(* The classifier on a wide set of group words: blobs of one well formed   *)
(* record whose group field runs over every pairing of the low and high    *)
(* halves below.                                                           *)
(***************************************************************************)

MaxGroupId == 12

LowHalves == {<<n, 0>> : n \in 0..MaxGroupId} \cup {<<1, 1>>, <<0, 1>>, <<255, 255>>}

HighHalves == {<<0, 0>>, <<1, 0>>, <<0, 255>>, <<255, 127>>, <<255, 254>>, <<254, 255>>, <<255, 255>>}

GroupWords == {lo \o hi : lo \in LowHalves, hi \in HighHalves}

GroupTypes == {U32(EVENT_LOG), U32(SYS_MEM_MAP), U32(MILAN_PMU_TRAIN_FAIL), <<6, 0, 255, 255>>}

\* a header with no padding and one record of an 8 byte payload
OneRecordBlob(g, ty) ==
    LET hdr == APOB_SIG \o APOB_VERSION \o U32(72) \o U32(HeaderSize)
        rec == g \o ty \o U32(0) \o U32(EntrySize + 8)
    IN  Put(Put(Filler(72), 0, hdr), HeaderSize, rec)

InitGroups ==
    \E g \in GroupWords, ty \in GroupTypes, a \in ArgsSet :
        InitWith(OneRecordBlob(g, ty), a)

SpecGroups == InitGroups /\ [][Next]_vars

(***************************************************************************)
(* The browser: the event loop of App::run.  Each turn draws a frame,      *)
(* waits up to 50 ms for an event, reads one and handles it.               *)
(***************************************************************************)

\* DataGrouping::bytes
bytes(g) ==
    IF g = "Byte" THEN 1
    ELSE IF g = "Word" THEN 2
    ELSE IF g = "DoubleWord" THEN 4
    ELSE 8

\* the 'e' key leaving the display big-endian whatever it was
flip_endian_stuck(e) == "Big"

\* app.rs 132-135: the 'e' key
flip_endian(e) == IF e = "Big" THEN "Little" ELSE "Big"

FocusColumn == 45

MomentumCap == 16

\* the wheel events that arrive within the poll timeout of the event
\* before them stop once the step has grown to this
MaxMomentum == 2

\* in a build where data_scroll_max - 1 wraps, a payload without rows is
\* scrolled down no further than to this row
MaxWrappedRow == 2

\* the keys that move a selection or the focus, the quit keys, a key the
\* browser ignores
MoveKeys == {"0", "q", "Esc", "j", "Down", "k", "l", "h", "PageDown", "PageUp", "x"}

\* and the keys of the display options
KeyCodes == MoveKeys \cup {"1", "2", "4", "8", "e", "c", "Up", "Right", "Left"}

QuitKeys == {"q", "Esc"}

Columns == {45, 46}

Rows == {1, 2, 3, 30}

Done(a) == [ok |-> TRUE, app |-> a]

\* the move is one the model follows: see MaxWrappedRow
Followed(a, down, d) ==
    (a.data_focus /\ down /\ next_data_row_underflows(a))
        => a.data_state.selected[1] + d <= MaxWrappedRow

\* a move by d that goes to the item list whatever pane has the focus
Move_to_items(a, down, d, checks) ==
    Done(IF down THEN next_item_row(a, d) ELSE prev_item_row(a, d))

\* a move by d routed to the pane that has the focus
Move(a, down, d, checks) ==
    IF ~a.data_focus
    THEN Done(IF down THEN next_item_row(a, d) ELSE prev_item_row(a, d))
    ELSE IF ~down THEN Done(prev_data_row(a, d))
    ELSE IF next_data_row_underflows(a) /\ checks
    THEN [ok |-> FALSE, site |-> "data_scroll_max_underflow"]
    ELSE Done(next_data_row(a, d))

\* a page step of the height the App is built with
page_step_initial(a) == InitialWindowHeight

\* app.rs 163-172: self.window_height.into(), the step of PageDown and PageUp
page_step(a) == a.window_height

\* app.rs 111-176: a key press other than a quit key
key(a, code, checks) ==
    IF code = "0"
    THEN Done(IF a.data_focus THEN set_data_scroll(a, 0) ELSE set_item_scroll(a, 0))
    ELSE IF code = "1" THEN Done([a EXCEPT !.data_grouping = "Byte"])
    ELSE IF code = "2" THEN Done([a EXCEPT !.data_grouping = "Word"])
    ELSE IF code = "4" THEN Done([a EXCEPT !.data_grouping = "DoubleWord"])
    ELSE IF code = "8" THEN Done([a EXCEPT !.data_grouping = "QuadWord"])
    ELSE IF code = "e" THEN Done([a EXCEPT !.data_endian = flip_endian(a.data_endian)])
    ELSE IF code \in {"j", "Down"} THEN Move(a, TRUE, 1, checks)
    ELSE IF code \in {"k", "Up"} THEN Move(a, FALSE, 1, checks)
    ELSE IF code \in {"l", "Right"} THEN Done([a EXCEPT !.data_focus = TRUE])
    ELSE IF code \in {"h", "Left"} THEN Done([a EXCEPT !.data_focus = FALSE])
    ELSE IF code = "c" THEN Done([a EXCEPT !.data_colors = ~a.data_colors])
    ELSE IF code = "PageDown" THEN Move(a, TRUE, page_step(a), checks)
    ELSE IF code = "PageUp" THEN Move(a, FALSE, page_step(a), checks)
    ELSE Done(a)

\* a click that takes the first line of the pane for the first item
click_from_first_line(a, row) ==
    LET sel == a.item_state.offset + row - 1
    IN  IF sel >= 0 /\ sel < Len(a.items) THEN set_item_scroll(a, sel) ELSE a

\* app.rs 178-189: a press of the left button on line `row` of the item list
click(a, row) ==
    LET sel == a.item_state.offset + row - 2
    IN  IF sel >= 0 /\ sel < Len(a.items) THEN set_item_scroll(a, sel) ELSE a

\* app.rs 106-108: the step is 1 again when the poll timed out
Momentum(ready) == IF ready THEN scroll_momentum ELSE 1

\* a loop that keeps the step of the wheel over the other events
rest_momentum_kept(m) == m

\* app.rs 105 and 215-217: the step after an event that is no wheel event
rest_momentum(m) == 1

\* app.rs 110-177: a key is pressed
KeyPress(code, ready) ==
    /\ pc = "poll"
    /\ code \in {"j", "Down"} => Followed(app[1], TRUE, 1)
    /\ code = "PageDown" => Followed(app[1], TRUE, app[1].window_height)
    /\ LET r == key(app[1], code, overflow_checks)
       IN  IF code \in QuitKeys
           THEN /\ pc' = "exit"
                /\ scroll_momentum' = Momentum(ready)
                /\ UNCHANGED <<app, err>>
           ELSE IF ~r.ok
           THEN /\ Panic(r.site)
                /\ scroll_momentum' = Momentum(ready)
                /\ app' = app
           ELSE /\ app' = Some(r.app)
                /\ pc' = "run"
                /\ scroll_momentum' = rest_momentum(scroll_momentum)
                /\ err' = err
    /\ UNCHANGED <<data, args, header, entries, pos, stdout, idx, overflow_checks>>

\* app.rs 102-104: a mouse event gives the focus to the pane it is over
Pointed(a, column) == [a EXCEPT !.data_focus = column > FocusColumn]

\* app.rs 178-189: the left button is pressed at the given column and line
Click(column, row) ==
    /\ pc = "poll"
    /\ LET a == Pointed(app[1], column)
       IN  app' = Some(IF ~a.data_focus THEN click(a, row) ELSE a)
    /\ pc' = "run"
    /\ scroll_momentum' = rest_momentum(scroll_momentum)
    /\ UNCHANGED <<data, args, header, entries, pos, err, stdout, idx, overflow_checks>>

\* a wheel whose step doubles with every event that was ready
next_momentum_doubles(m, ready) == IF ready THEN Min(2 * m, MomentumCap) ELSE 1

\* app.rs 196-199, 207-210 and 215-217: the step after a wheel event
next_momentum(m, ready) == IF ready THEN Min(m + 1, MomentumCap) ELSE 1

\* app.rs 190-211: the wheel is turned, down or up, at the given column;
\* the events that were ready stop once the step has grown to `limit`
WheelUpTo(limit, down, column, ready) ==
    /\ pc = "poll"
    /\ ready => scroll_momentum < limit
    /\ down => Followed(Pointed(app[1], column), TRUE, Momentum(ready))
    /\ LET a == Pointed(app[1], column)
           r == Move(a, down, Momentum(ready), overflow_checks)
       IN  IF ~r.ok
           THEN /\ Panic(r.site)
                /\ scroll_momentum' = Momentum(ready)
                /\ app' = Some(a)
           ELSE /\ app' = Some(r.app)
                /\ pc' = "run"
                /\ scroll_momentum' = next_momentum(scroll_momentum, ready)
                /\ err' = err
    /\ UNCHANGED <<data, args, header, entries, pos, stdout, idx, overflow_checks>>

Wheel(down, column, ready) == WheelUpTo(MaxMomentum, down, column, ready)

\* app.rs 102-104 and 212: the mouse is moved, or another button pressed
MouseOther(column) ==
    /\ pc = "poll"
    /\ app' = Some(Pointed(app[1], column))
    /\ pc' = "run"
    /\ scroll_momentum' = rest_momentum(scroll_momentum)
    /\ UNCHANGED <<data, args, header, entries, pos, err, stdout, idx, overflow_checks>>

\* app.rs 212: any other event (a key released, the terminal resized, ...)
OtherEvent ==
    /\ pc = "poll"
    /\ pc' = "run"
    /\ scroll_momentum' = rest_momentum(scroll_momentum)
    /\ UNCHANGED <<data, args, header, entries, pos, err, stdout, idx, app, overflow_checks>>

\* app.rs 213: reading the event failed
ReadError(ready) ==
    /\ pc = "poll"
    /\ pc' = "exit"
    /\ scroll_momentum' = Momentum(ready)
    /\ UNCHANGED <<data, args, header, entries, pos, err, stdout, idx, app, overflow_checks>>

\* the program with the browser's event loop, the keys of the display
\* options left out, on terminals of any size
NextApp ==
    \/ ParseHeader
    \/ WalkStep
    \/ StartDump
    \/ DumpItem
    \/ StartApp
    \/ DrawSmall
    \/ \E code \in MoveKeys, ready \in BOOLEAN : KeyPress(code, ready)
    \/ \E column \in Columns, row \in Rows : Click(column, row)
    \/ \E down \in BOOLEAN, column \in Columns, ready \in BOOLEAN : Wheel(down, column, ready)
    \/ \E column \in Columns : MouseOther(column)
    \/ OtherEvent
    \/ \E ready \in BOOLEAN : ReadError(ready)

\* the program with the browser's event loop and every key
NextView ==
    \/ Next
    \/ \E code \in KeyCodes, ready \in BOOLEAN : KeyPress(code, ready)
    \/ \E column \in Columns, row \in Rows : Click(column, row)
    \/ \E down \in BOOLEAN, column \in Columns, ready \in BOOLEAN : Wheel(down, column, ready)
    \/ \E column \in Columns : MouseOther(column)
    \/ OtherEvent
    \/ \E ready \in BOOLEAN : ReadError(ready)

(***************************************************************************)
(* The blobs the browser is run on: well formed, every group known.  The   *)
(* blobs with a whole event log or PMU training log are only dumped.       *)
(***************************************************************************)

\* a record: its 48 byte header and its payload
Record(g, ty, inst, payload) ==
    g \o ty \o U32(inst) \o U32(EntrySize + Len(payload)) \o Filler(32) \o payload

RECURSIVE Flatten(_)
Flatten(ss) == IF ss = <<>> THEN <<>> ELSE Head(ss) \o Flatten(Tail(ss))

\* a header, `padding` bytes and the records
BlobOf(padding, recs) ==
    LET body == Flatten(recs)
    IN  APOB_SIG \o APOB_VERSION \o U32(HeaderSize + padding + Len(body))
            \o U32(HeaderSize + padding) \o Filler(padding) \o body

\* an ApobSysMemMap announcing hole_count holes, followed by `holes` holes
MemMapPayload(hole_count, holes) ==
    Filler(8) \o U32(hole_count) \o <<0, 0, 0, 0>> \o Filler(SysMemMapHoleSize * holes)

\* a MilanApobEventLog announcing `count` events
EventLogPayload(count) == <<count % 256, count \div 256, 0, 0>> \o Filler(EventLogSize - 4)

\* a PmuTfi announcing nvalid entries
PmuTfiPayload(nvalid) == U32(nvalid) \o Filler(PmuTfiSize - 4)

BrowsedBlobs ==
    { \* no padding, a record of five or three rows
      BlobOf(0, << Record(<<1, 0, 0, 0>>, <<1, 0, 0, 0>>, 0, Filler(40)) >>),
      \* a record without payload
      BlobOf(8, << Record(<<2, 0, 0, 0>>, <<3, 0, 0, 0>>, 1, <<>>) >>),
      \* a cancelled memory map of one hole, an event log cut short
      BlobOf(8, << Record(<<9, 0, 255, 255>>, U32(SYS_MEM_MAP), 0, MemMapPayload(1, 1)),
                   Record(<<7, 0, 0, 0>>, U32(EVENT_LOG), 0, Filler(8)) >>),
      \* a memory map announcing a hole it does not have
      BlobOf(0, << Record(<<9, 0, 0, 0>>, U32(SYS_MEM_MAP), 0, MemMapPayload(1, 0)) >>) }

DumpedBlobs ==
    { BlobOf(0, << Record(<<7, 0, 0, 0>>, U32(EVENT_LOG), 0, EventLogPayload(n)) >>) :
          n \in {2, EventLogEvents, EventLogEvents + 1} }
    \cup
    { BlobOf(0, << Record(<<1, 0, 0, 0>>, U32(MILAN_PMU_TRAIN_FAIL), 0, PmuTfiPayload(n)) >>) :
          n \in {0, PmuTfiEntries, PmuTfiEntries + 1} }

InitApp ==
    \/ \E blob \in BrowsedBlobs, a \in ArgsSet : InitWith(blob, a)
    \/ \E blob \in DumpedBlobs, a \in ArgsSet : ~a.interactive /\ InitWith(blob, a)

SpecApp == InitApp /\ [][NextApp]_vars

\* eight bytes of padding and a record of three or two rows
ViewedBlob == BlobOf(8, << Record(<<1, 0, 0, 0>>, <<1, 0, 0, 0>>, 0, Filler(24)) >>)

InitView == \E a \in ArgsSet : InitWith(ViewedBlob, a)

SpecView == InitView /\ [][NextView]_vars

\* the wheel turned over the payload without a bound on its step
WheelFree(down, ready) == WheelUpTo(MomentumCap + 1, down, FocusColumn + 1, ready)

\* the frame drawn on a terminal of 80 columns and 24 lines
DrawPlain == DrawOn({[width |-> 80, height |-> 24]})

\* the browser under the wheel: the key j selects an item, the wheel
\* scrolls its payload, the other events come in between
NextWheel ==
    \/ ParseHeader
    \/ WalkStep
    \/ StartApp
    \/ DrawPlain
    \/ \E code \in {"j", "x"}, ready \in BOOLEAN : KeyPress(code, ready)
    \/ \E down \in BOOLEAN, ready \in BOOLEAN : WheelFree(down, ready)
    \/ \E row \in Rows : Click(FocusColumn + 1, row)
    \/ MouseOther(FocusColumn + 1)
    \/ OtherEvent

\* eight bytes of padding and a record of 153 rows of 8 bytes: the rows a
\* run of 17 wheel events scrolls over
WheelBlob == BlobOf(8, << Record(<<1, 0, 0, 0>>, <<1, 0, 0, 0>>, 0, Filler(1224)) >>)

\* no payload of this blob is without rows: the build makes no difference
InitWheel == \E a \in ArgsSet : a.interactive /\ InitWith(WheelBlob, a) /\ overflow_checks

SpecWheel == InitWheel /\ [][NextWheel]_vars

(***************************************************************************)
(* Bit-packed words: PmuTfiEntryBitfield and MilanTrainErrorData0.         *)
(***************************************************************************)

\* a >> n on u32, for n below 32
Shr32(a, n) ==
    LET q == n \div 8
        r == n % 8
        B(k) == IF k <= 4 THEN a[k] ELSE 0
    IN  [k \in 1..4 |-> (B(k + q) \div 2^r) + (B(k + q + 1) % 2^r) * 2^(8 - r)]

\* lib.rs 237-239: PmuTfiEntryBitfield::sock
pmu_sock(w) == AsUsize(And32(w, U32(1)))

\* lib.rs 240-242: PmuTfiEntryBitfield::umc
pmu_umc(w) == AsUsize(And32(Shr32(w, 1), U32(7)))

\* lib.rs 243-246: PmuTfiEntryBitfield::dimension
pmu_dimension(w) == AsUsize(And32(Shr32(w, 4), U32(1)))

\* lib.rs 248-250: PmuTfiEntryBitfield::num_1d
pmu_num_1d(w) == AsUsize(And32(Shr32(w, 5), U32(7)))

\* a stage read from bit 7 on, over the last bit of num_1d
pmu_stage_from_bit_7(w) == AsUsize(And32(Shr32(w, 7), U32(65535)))

\* lib.rs 252-254: PmuTfiEntryBitfield::stage
pmu_stage(w) == AsUsize(And32(Shr32(w, 15), U32(65535)))

\* lib.rs 117-119: MilanTrainErrorData0::sock
train_sock(w) == AsUsize(And32(w, U32(255)))

\* lib.rs 120-122: MilanTrainErrorData0::chan
train_chan(w) == AsUsize(And32(Shr32(w, 8), U32(255)))

\* lib.rs 123-125: MilanTrainErrorData0::dimm
train_dimm(w) == AsUsize(And32(Shr32(w, 16), U32(3)))

\* lib.rs 126-128: MilanTrainErrorData0::rank
train_rank(w) == AsUsize(And32(Shr32(w, 24), U32(15)))

\* main.rs 187-201, app.rs 549-553: the five fields shown for the bits of a
\* training failure entry
PmuFields(w) ==
    [sock |-> pmu_sock(w), umc |-> pmu_umc(w), dimension |-> pmu_dimension(w),
     num_1d |-> pmu_num_1d(w), stage |-> pmu_stage(w)]

\* app.rs 459-470: the four fields shown for data0 of a training error event
TrainFields(w) ==
    [sock |-> train_sock(w), chan |-> train_chan(w),
     dimm |-> train_dimm(w), rank |-> train_rank(w)]

\* bytes of the words tried: no bit, every bit, alternating bits, the top
\* bit alone and all but the top bit
BitBytes == {0, 1, 85, 127, 128, 170, 255}

BitWords == [1..4 -> BitBytes]

\* the word is read as the bits of a training failure entry
ShowPmuBits ==
    /\ pc = "bits"
    /\ stdout' = Append(stdout, PmuFields(data))
    /\ pc' = "data0"
    /\ UNCHANGED <<data, args, header, entries, pos, err, idx, app,
                   scroll_momentum, overflow_checks>>

\* the same word is read as data0 of a training error event
ShowTrainError ==
    /\ pc = "data0"
    /\ stdout' = Append(stdout, TrainFields(data))
    /\ pc' = "done"
    /\ UNCHANGED <<data, args, header, entries, pos, err, idx, app,
                   scroll_momentum, overflow_checks>>

NextBits == ShowPmuBits \/ ShowTrainError

InitBits ==
    /\ data \in BitWords
    /\ args \in ArgsSet
    /\ args.interactive
    /\ pc = "bits"
    /\ header = Nothing
    /\ entries = <<>>
    /\ pos = 0
    /\ err = "none"
    /\ stdout = <<>>
    /\ idx = 0
    /\ app = Nothing
    /\ scroll_momentum = 1
    /\ overflow_checks = TRUE

SpecBits == InitBits /\ [][NextBits]_vars

(***************************************************************************)
(* Properties                                                              *)
(***************************************************************************)

\* the panics of the walk, as opposed to those of the dump and of the browser
ParseFaults ==
    {"header_prefix", "invalid signature", "invalid version", "padding_range",
     "entry_prefix", "entry_size_range", "entry_header_range"}

\* the walk has ended and left the complete item list
Parsed ==
    /\ pc # "main"
    /\ ~(pc = "walk" /\ pos < Len(data))
    /\ err \notin ParseFaults

\* nothing of the blob has been printed or handed to the browser
NothingShown == stdout = <<>> /\ app = Nothing

\* the bytes of the blob an item stands for: its own 48 byte header, for a
\* record, and its data
Extent(item) ==
    IF item.entry.kind = "Entry" THEN EntrySize + Len(item.data) ELSE Len(item.data)

\* the items lie back to back from 0 to the end of the blob
Covers ==
    /\ Len(entries) >= 2
    /\ entries[1].entry.kind = "Header"
    /\ entries[2].entry.kind = "Padding"
    /\ \A n \in 3..Len(entries) : entries[n].entry.kind = "Entry"
    /\ entries[1].offset = 0
    /\ \A n \in 1..(Len(entries) - 1) :
           entries[n + 1].offset = entries[n].offset + Extent(entries[n])
    /\ entries[Len(entries)].offset + Extent(entries[Len(entries)]) = Len(data)

\* C1 as stated: after a successful parse the items Header, Padding,
\* records cover [0, len) back to back and their offsets increase strictly,
\* an empty padding included.
C1_StrictOffsets ==
    Parsed =>
        /\ Covers
        /\ \A n \in 1..(Len(entries) - 1) : entries[n].offset < entries[n + 1].offset

\* C1 amended: after a successful parse the items cover [0, len) back to
\* back with no gap and no overlap, and their offsets never decrease; two
\* consecutive offsets are equal only for an empty Padding item (offset
\* field 16) and the record after it, which both lie at 16.
C1_CoverExactly ==
    Parsed =>
        /\ Covers
        /\ \A n \in 1..(Len(entries) - 1) :
               \/ entries[n].offset < entries[n + 1].offset
               \/ /\ entries[n].offset = entries[n + 1].offset
                  /\ n = 2
                  /\ entries[n].data = <<>>
                  /\ AsUsize(header[1].offset) = HeaderSize

\* C1 witness: a parse with an empty padding and two records
C1_Witness ==
    /\ Parsed
    /\ Len(entries) = 4
    /\ entries[2].data = <<>>
    /\ entries[3].offset = HeaderSize
    /\ Len(entries[3].data) > 0

\* the bytes of an ApobHeader, field by field
HeaderBytes(h) == h.sig \o h.version \o h.size \o h.offset

\* the bytes of an ApobEntry, field by field
EntryBytes(e) == e.group \o e.ty \o e.inst \o e.size \o e.hmac

\* what an item gives back: the header, the padding, or a record's 48 byte
\* header followed by its payload
ItemBytes(item) ==
    IF item.entry.kind = "Header" THEN HeaderBytes(item.entry.h)
    ELSE IF item.entry.kind = "Padding" THEN item.data
    ELSE EntryBytes(item.entry.e) \o item.data

RECURSIVE Concat(_, _)
Concat(items, n) == IF n = 0 THEN <<>> ELSE Concat(items, n - 1) \o ItemBytes(items[n])

\* C2: after a successful parse, the header's bytes, the padding and each
\* record's header and payload, in item order, give back the blob byte
\* for byte; the Header item's data is the header, and each record's
\* payload is blob[pos+48 .. pos+size).
C2_RoundTrip ==
    Parsed =>
        /\ Concat(entries, Len(entries)) = data
        /\ entries[1].data = HeaderBytes(entries[1].entry.h)
        /\ \A n \in 3..Len(entries) :
               entries[n].data =
                   Slice(data, entries[n].offset + EntrySize,
                         entries[n].offset + AsUsize(entries[n].entry.e.size))

\* C2 witness: a parse with a padding and two records, one with a payload
C2_Witness ==
    /\ Parsed
    /\ Len(entries) = 4
    /\ Len(entries[2].data) > 0
    /\ Len(entries[3].data) = 0
    /\ Len(entries[4].data) > 0

\* the walk stands at a record whose header can be read
AtRecord == pc = "walk" /\ pos < Len(data) /\ RefFromPrefixOk(data, pos, EntrySize, EntryAlign)

\* C3: a record whose declared size exceeds the bytes left from its start
\* makes the walk panic at the slice by that size (RecordOverrun), and
\* only such a record does; neither the items decoded before it nor
\* anything else is printed or handed to the browser.
C3_RecordOverrun ==
    /\ [][(AtRecord /\ AsUsize(ReadEntry(data, pos).size) > Len(data) - pos)
            => (pc' = "panic" /\ err' = "entry_size_range" /\ NothingShown')]_vars
    /\ [](err = "entry_size_range" =>
            /\ pc = "panic"
            /\ NothingShown
            /\ AsUsize(ReadEntry(data, pos).size) > Len(data) - pos)

\* C3 witness: the second record overruns, the first was decoded
C3_Witness ==
    /\ err = "entry_size_range"
    /\ Len(entries) = 3
    /\ pos > HeaderSize

\* the blob has the bytes of a signature and a version, and one is wrong
BadHeader ==
    /\ Len(data) >= 8
    /\ Slice(data, 0, 4) # APOB_SIG \/ Slice(data, 4, 8) # APOB_VERSION

\* C4: a blob whose signature or version is wrong is rejected by the first
\* step of main, before any item exists and with nothing printed or handed
\* to the browser; when the 16 bytes of the header are there, by the
\* assertion on the signature (first) or on the version.
C4_BadHeaderFatal ==
    (BadHeader /\ pc # "main") =>
        /\ pc = "panic"
        /\ entries = <<>>
        /\ NothingShown
        /\ Len(data) >= HeaderSize =>
               err = IF Slice(data, 0, 4) # APOB_SIG THEN "invalid signature"
                     ELSE "invalid version"

\* C4 witness: a blob of one whole record behind a header of a wrong version
C4_Witness ==
    /\ err = "invalid version"
    /\ Len(data) = 72
    /\ AsUsize(Slice(data, 12, 16)) = HeaderSize
    /\ AsUsize(Slice(data, 28, 32)) = 56

\* C5: with the position inside the blob and fewer than 48 bytes left, the
\* walk panics at the overlay of the record header (TruncatedRecord); the
\* tail is neither dropped nor made an item, nothing is shown; and that
\* panic only happens where 48 bytes are not left or the position is not
\* a multiple of 4.
C5_TruncatedRecord ==
    /\ [][(pc = "walk" /\ pos < Len(data) /\ Len(data) - pos < EntrySize)
            => (pc' = "panic" /\ err' = "entry_prefix" /\ entries' = entries
                /\ pos' = pos /\ NothingShown')]_vars
    /\ [](err = "entry_prefix" =>
            /\ pc = "panic"
            /\ NothingShown
            /\ Len(data) - pos < EntrySize \/ pos % EntryAlign # 0)

\* C5 witness: two records and a tail of two bytes
C5_Witness ==
    /\ err = "entry_prefix"
    /\ Len(entries) = 4
    /\ Len(data) - pos = 2

\* C6: whenever the header passed its two assertions, an offset field
\* below 16 or beyond the end of the blob is a panic at the range of the
\* Padding item (TruncatedHeader) with no item made, and any other offset
\* gives the Padding item [16, offset), empty when the offset is 16.
C6_Padding ==
    (header # Nothing /\ header[1].sig = APOB_SIG /\ header[1].version = APOB_VERSION) =>
        LET offset == AsUsize(header[1].offset)
        IN  IF offset < HeaderSize \/ offset > Len(data)
            THEN pc = "panic" /\ err = "padding_range" /\ entries = <<>> /\ NothingShown
            ELSE /\ Len(entries) >= 2
                 /\ entries[2].entry.kind = "Padding"
                 /\ entries[2].offset = HeaderSize
                 /\ entries[2].data = Slice(data, HeaderSize, offset)
                 /\ Len(entries[2].data) = offset - HeaderSize

\* C6 witness: an offset field of 12
C6_Witness ==
    /\ err = "padding_range"
    /\ AsUsize(header[1].offset) < HeaderSize

\* C7: the walk ends on every blob.  A turn of the loop either panics and
\* adds no item, or adds one item and moves the position forward by at
\* least 48 and not beyond the end; a record whose size field is below 48
\* (0 included) is a panic, never an item; and every run leaves the loop,
\* by a panic or with the position at the end of the blob.
C7_WalkTerminates ==
    /\ [][(pc = "walk" /\ pos < Len(data)) =>
            \/ pc' = "panic" /\ err' \in ParseFaults /\ entries' = entries
            \/ /\ pc' = "walk"
               /\ Len(entries') = Len(entries) + 1
               /\ pos' >= pos + EntrySize
               /\ pos' <= Len(data)]_vars
    /\ [][(AtRecord /\ AsUsize(ReadEntry(data, pos).size) < EntrySize)
            => (pc' = "panic" /\ entries' = entries)]_vars
    /\ <>(pc # "main" /\ (pc = "walk" => pos = Len(data)))
    /\ [](Parsed => pos = Len(data))

\* C7 witness: a second record of size 0
C7_Witness ==
    /\ err = "entry_header_range"
    /\ Len(entries) = 3
    /\ AsUsize(ReadEntry(data, pos).size) = 0

\* the records among the items
Records == {entries[n].entry.e : n \in {m \in 1..Len(entries) : entries[m].entry.kind = "Entry"}}

\* C8: for every record, cancelled() is true exactly when both bytes of
\* the high half of the group word are 0xFF, and group() is the same for
\* every group word with the same low half.
C8_Classifier ==
    \A e \in Records :
        /\ cancelled(e) <=> (e.group[3] = 255 /\ e.group[4] = 255)
        /\ \A g \in GroupWords :
               (g[1] = e.group[1] /\ g[2] = e.group[2])
                   => group([e EXCEPT !.group = g]) = group(e)
        /\ group(e) # None <=> (e.group[2] = 0 /\ e.group[1] \in 1..10)

\* C8 witness: a cancelled record of a known group
C8_Witness ==
    /\ Parsed
    /\ \E e \in Records : cancelled(e) /\ group(e) = "SMBIOS"

\* C9 as stated: a record whose group field is 0x0001_FFFF is cancelled
\* and of the memory group.
C9_AsStated ==
    \A e \in Records :
        e.group = <<255, 255, 1, 0>> => (cancelled(e) /\ group(e) = "MEMORY")

\* C9 amended: a record whose group field is 0xFFFF_0001 is cancelled and
\* of the memory group; one whose group field is 0x0001_FFFF is not
\* cancelled (its high half is 0x0001) and of no known group (its low half
\* is 0xFFFF).
C9_CancelledMemory ==
    \A e \in Records :
        /\ e.group = <<1, 0, 255, 255>> => (cancelled(e) /\ group(e) = "MEMORY")
        /\ e.group = <<255, 255, 1, 0>> => (~cancelled(e) /\ group(e) = None)

\* C9 witness: the record of group 0xFFFF_0001 has been read
C9_Witness ==
    /\ Parsed
    /\ \E e \in Records : e.group = <<1, 0, 255, 255>>

\* C10 as stated: a record of an unknown group is no error: the blob
\* parses, and listing the record in the dump or in the browser's table
\* does not panic.
C10_UnknownGroupListed ==
    (\E e \in Records : group(e) = None) =>
        err \notin {"dump_group_unwrap", "table_group_unwrap"}

\* the low half of a record's group word and its type are these numbers
Pair(e, g, ty) == e.group[1] = g /\ e.group[2] = 0 /\ e.ty = <<ty, 0, 0, 0>>

\* C11: the Header item has the tag Header and the Padding item none; a
\* record has the tag EventLog exactly when the low half of its group word
\* is 7 (GENERAL) and its type 6, MemMap exactly for 9 (FABRIC) and 9,
\* PmuTrainingFailure exactly for 1 (MEMORY) and 22, and none otherwise;
\* the tag is the same for every group word with the same low half.
C11_Specialized ==
    \A n \in 1..Len(entries) :
        LET i == entries[n].entry
        IN  IF i.kind = "Header" THEN specialized(i) = "Header"
            ELSE IF i.kind = "Padding" THEN specialized(i) = None
            ELSE /\ specialized(i) = "EventLog" <=> Pair(i.e, 7, 6)
                 /\ specialized(i) = "MemMap" <=> Pair(i.e, 9, 9)
                 /\ specialized(i) = "PmuTrainingFailure" <=> Pair(i.e, 1, 22)
                 /\ specialized(i) \in {"EventLog", "MemMap", "PmuTrainingFailure", None}
                 /\ \A g \in GroupWords :
                        (g[1] = i.e.group[1] /\ g[2] = i.e.group[2])
                            => specialized([i EXCEPT !.e.group = g]) = specialized(i)

\* C11 witness: a cancelled record of the fabric group and type 9 has been
\* read, and its tag is MemMap
C11_Witness ==
    /\ Parsed
    /\ \E n \in 1..Len(entries) :
           /\ entries[n].entry.kind = "Entry"
           /\ cancelled(entries[n].entry.e)
           /\ specialized(entries[n].entry) = "MemMap"

\* the size of the structure a tag overlays on the payload
StructSize(tag) ==
    IF tag = "EventLog" THEN EventLogSize
    ELSE IF tag = "PmuTrainingFailure" THEN PmuTfiSize
    ELSE IF tag = "MemMap" THEN SysMemMapSize
    ELSE 0

\* the item is a record with a specialized tag whose payload is shorter
\* than the structure of the tag
Truncated(item) ==
    /\ item.entry.kind = "Entry"
    /\ specialized(item.entry) # None
    /\ Len(item.data) < StructSize(specialized(item.entry))

\* C12 as stated: a record with a specialized tag and a payload shorter
\* than the tag's structure ends neither the browser nor the decoded dump:
\* the run does not panic at the overlay of the structure.
C12_TruncatedIsLocal ==
    (\E n \in 1..Len(entries) : Truncated(entries[n]))
        => err \notin {"event_log_prefix", "mem_map_prefix", "pmu_tfi_prefix"}

\* the number of elements a well sized payload announces, and the number
\* its array has
Announced(item) ==
    LET tag == specialized(item.entry)
    IN  IF tag = "EventLog" THEN item.data[1] + 256 * item.data[2]
        ELSE AsUsize(Slice(item.data, IF tag = "MemMap" THEN 8 ELSE 0,
                                      IF tag = "MemMap" THEN 12 ELSE 4))

Physical(item) ==
    LET tag == specialized(item.entry)
    IN  IF tag = "EventLog" THEN EventLogEvents
        ELSE IF tag = "PmuTrainingFailure" THEN PmuTfiEntries
        ELSE (Len(item.data) - SysMemMapSize) \div SysMemMapHoleSize

\* C13 as stated: a specialized payload that announces more elements than
\* its array has ends neither the browser nor the decoded dump: the run
\* does not panic at the slice of the array.
C13_CountWithinArray ==
    (\E n \in 1..Len(entries) :
        /\ entries[n].entry.kind = "Entry"
        /\ specialized(entries[n].entry) # None
        /\ ~Truncated(entries[n])
        /\ Announced(entries[n]) > Physical(entries[n]))
        => err \notin {"event_log_count", "mem_map_count", "pmu_tfi_count"}

\* the index of the selected item, the payload row, the rows remembered
Sel(a) == a.item_state.selected[1]

Row(a) == a.data_state.selected

Cache(a) == a.data_scroll_cache

\* an event has been handled and the loop goes on
Handled == pc = "poll" /\ pc' = "run"

\* a frame has been drawn
Drawn == pc = "run" /\ pc' = "poll"

\* the rows remembered for the items other than i are the same in c and d
SameButFor(c, d, i) ==
    \A k \in (DOMAIN c \cup DOMAIN d) \ {i} :
        k \in DOMAIN c /\ k \in DOMAIN d /\ c[k] = d[k]

\* a remembered row as a frame shows it: the last row when it lies behind
\* the last row, none when the payload has no row
Cut(a, row) ==
    LET nrows == DivCeil(Len(a.items[Sel(a) + 1].data), a.data_width)
    IN  IF nrows = 0 THEN Nothing
        ELSE IF row >= nrows THEN Some(nrows - 1)
        ELSE Some(row)

\* C14: the row of every item is remembered.  An event that selects an
\* item sets the payload row to the row remembered for it, 0 for an item
\* that has none, and changes no remembered row; an event that moves the
\* payload row remembers the new row for the selected item; no event
\* changes the row remembered for another item, and a frame drawn without
\* a change of the row width changes no remembered row; and in every frame
\* the row shown is the row remembered for the selected item (0 when none
\* is), cut to the rows the payload has.
C14_ScrollMemory ==
    /\ [][(Handled /\ Sel(app'[1]) # Sel(app[1])) =>
            /\ Row(app'[1]) = Some(CacheGet(Cache(app[1]), Sel(app'[1])))
            /\ Cache(app'[1]) = Cache(app[1])]_vars
    /\ [][(Handled /\ Sel(app'[1]) = Sel(app[1])) =>
            /\ SameButFor(Cache(app[1]), Cache(app'[1]), Sel(app[1]))
            /\ Row(app'[1]) # Row(app[1]) =>
                   Row(app'[1]) = Some(CacheGet(Cache(app'[1]), Sel(app[1])))]_vars
    /\ [][(Drawn /\ app'[1].data_width = app[1].data_width) =>
            Cache(app'[1]) = Cache(app[1])]_vars
    /\ [](pc = "poll" =>
            Row(app[1]) \in { Some(CacheGet(Cache(app[1]), Sel(app[1]))),
                              Cut(app[1], CacheGet(Cache(app[1]), Sel(app[1]))) })

\* C14 witness: the wheel, turned over the item list, has just selected the
\* record, and its payload is back at row 4, while row 1 is remembered for
\* the header
C14_Witness ==
    /\ pc = "run"
    /\ scroll_momentum = 2
    /\ ~app[1].data_focus
    /\ Sel(app[1]) = 2
    /\ Row(app[1]) = Some(4)
    /\ 0 \in DOMAIN Cache(app[1])
    /\ Cache(app[1])[0] = 1

\* the number of items
Count(a) == Len(a.items)

\* i + d and i - d kept within the items
Up(a, i, d) == IF i + d > Count(a) - 1 THEN Count(a) - 1 ELSE i + d

Down(i, d) == IF i - d < 0 THEN 0 ELSE i - d

\* C15: an item is always selected, and its index lies in [0, n-1]; with
\* the focus on the item list, the keys j and k select min(i+1, n-1) and
\* max(i-1, 0), PageDown and PageUp min(i+h, n-1) and max(i-h, 0) for the
\* window height h (which may be 0), the wheel min(i+m, n-1) and
\* max(i-m, 0) for its step m, the key 0 selects item 0, and a press of
\* the left button on line r selects item offset + r - 2 when that is an
\* item and leaves the selection alone when it is not.
C15_ItemMovesSaturate ==
    /\ [](app # Nothing =>
            /\ app[1].item_state.selected # Nothing
            /\ Sel(app[1]) \in 0..(Count(app[1]) - 1))
    /\ [][\A ready \in BOOLEAN :
            (Handled /\ ~app[1].data_focus) =>
                /\ KeyPress("j", ready) => Sel(app'[1]) = Up(app[1], Sel(app[1]), 1)
                /\ KeyPress("k", ready) => Sel(app'[1]) = Down(Sel(app[1]), 1)
                /\ KeyPress("PageDown", ready) =>
                       Sel(app'[1]) = Up(app[1], Sel(app[1]), app[1].window_height)
                /\ KeyPress("PageUp", ready) =>
                       Sel(app'[1]) = Down(Sel(app[1]), app[1].window_height)
                /\ KeyPress("0", ready) => Sel(app'[1]) = 0]_vars
    /\ [][\A ready \in BOOLEAN :
            LET m == IF ready THEN scroll_momentum ELSE 1
            IN  /\ Wheel(TRUE, FocusColumn, ready) => Sel(app'[1]) = Up(app[1], Sel(app[1]), m)
                /\ Wheel(FALSE, FocusColumn, ready) => Sel(app'[1]) = Down(Sel(app[1]), m)]_vars
    /\ [][\A row \in Rows :
            Click(FocusColumn, row) =>
                LET i == app[1].item_state.offset + row - 2
                IN  Sel(app'[1]) = IF i \in 0..(Count(app[1]) - 1) THEN i ELSE Sel(app[1])]_vars

\* C15 witness: the wheel has just been turned over the item list, and the
\* last of three items is selected
C15_Witness ==
    /\ pc = "run"
    /\ scroll_momentum = 2
    /\ ~app[1].data_focus
    /\ Count(app[1]) = 3
    /\ Sel(app[1]) = 2

\* the number of rows the selected item's payload has at the row width
Pages(a) == DivCeil(Len(a.items[Sel(a) + 1].data), a.data_width)

\* C16 as stated: the payload row always lies in [0, page_count - 1] for
\* the page count of the selected item at the current row width (row 0
\* for a payload without rows), and is the row remembered for the
\* selected item once a row move has been made.
C16_RowWithinPages ==
    /\ [](app # Nothing /\ Row(app[1]) # Nothing =>
            Row(app[1])[1] <= SaturatingSub(Pages(app[1]), 1))
    /\ [][\A ready \in BOOLEAN, code \in {"j", "k", "PageDown", "PageUp"} :
            (Handled /\ app[1].data_focus /\ KeyPress(code, ready)) =>
                /\ Row(app'[1]) # Nothing
                /\ Row(app'[1])[1] <= SaturatingSub(Pages(app'[1]), 1)
                /\ Cache(app'[1])[Sel(app[1])] = Row(app'[1])[1]]_vars

\* C17 as stated: once the browser has been started no operation of it
\* panics, and none computes with a wrapped difference: whatever the
\* items, the events and the size of the terminal.
C17_Total ==
    /\ [](app # Nothing => pc # "panic")
    /\ [][\A ready \in BOOLEAN, code \in {"j", "PageDown"} :
            (Handled /\ KeyPress(code, ready)) => ~next_data_row_underflows(app[1])]_vars

\* a key of the byte grouping has been pressed
GroupingKey == \E ready \in BOOLEAN, code \in {"1", "2", "4", "8"} : KeyPress(code, ready)

\* a row rescaled from rows of `old` bytes to rows of `new` bytes
Rescaled(row, old, new) == (row * old) \div new

OtherArea(a) ==
    IF a.data_width = NarrowRow THEN [width |-> 140, height |-> 40]
    ELSE [width |-> 80, height |-> 24]

\* C19: from every state in which the browser waits for an event, a frame
\* at the other row width B followed by a frame at the first width A
\* leaves the row width A, the payload row of the selected item when
\* row * A is a multiple of B, and for every other item the remembered row
\* when that row * A is a multiple of B; in between the rows are the
\* rescaled ones.
C19_RoundTrip ==
    (pc = "poll") =>
        LET a == app[1]
            A == a.data_width
            b == draw(a, OtherArea(a), overflow_checks).app
            B == b.data_width
            c == draw(b, OtherArea(b), overflow_checks).app
        IN  /\ B # A
            /\ c.data_width = A
            /\ (Row(a) # Nothing /\ (Row(a)[1] * A) % B = 0) =>
                   /\ Row(b) = Some(Rescaled(Row(a)[1], A, B))
                   /\ Row(c) = Row(a)
            /\ \A k \in DOMAIN Cache(a) \ {Sel(a)} :
                   /\ Cache(b)[k] = Rescaled(Cache(a)[k], A, B)
                   /\ (Cache(a)[k] * A) % B = 0 => Cache(c)[k] = Cache(a)[k]

\* C19 witness: with rows of 8 bytes the record is at row 2 and row 1 is
\* remembered for the header: the round trip gives the record its row
\* back, by way of row 1 at 16 bytes
C19_Witness ==
    /\ pc = "poll"
    /\ app[1].data_width = NarrowRow
    /\ Sel(app[1]) = 2
    /\ Row(app[1]) = Some(2)
    /\ 0 \in DOMAIN Cache(app[1])
    /\ Cache(app[1])[0] = 1

\* C20: the key e flips the endianness and the key c the colors, and
\* neither changes anything else of the App: the selected item, the
\* payload row, the remembered rows, the page count, the row width, the
\* grouping and the focus stay; pressing the same key twice gives the App
\* back.
C20_DisplayOptions ==
    /\ [][\A ready \in BOOLEAN :
            /\ KeyPress("e", ready) =>
                   app'[1] = [app[1] EXCEPT !.data_endian =
                                  IF app[1].data_endian = "Little" THEN "Big" ELSE "Little"]
            /\ KeyPress("c", ready) =>
                   app'[1] = [app[1] EXCEPT !.data_colors = ~app[1].data_colors]]_vars
    /\ [](pc = "poll" =>
            \A code \in {"e", "c"} :
                /\ key(app[1], code, overflow_checks).app # app[1]
                /\ key(key(app[1], code, overflow_checks).app, code, overflow_checks).app
                       = app[1])

\* C20 witness: the key e has just been pressed with the payload at row 2
\* and the focus on it: the display is big-endian, the colors are on
C20_Witness ==
    /\ pc = "run"
    /\ app[1].data_endian = "Big"
    /\ app[1].data_colors
    /\ app[1].data_focus
    /\ Row(app[1]) = Some(2)
    /\ 2 \in DOMAIN Cache(app[1])

\* the fields of the Browser State a frame is said to leave alone
Viewed(a) ==
    [ item |-> a.item_state.selected, row |-> a.data_state.selected,
      cache |-> a.data_scroll_cache, width |-> a.data_width,
      grouping |-> a.data_grouping, endian |-> a.data_endian,
      colors |-> a.data_colors, focus |-> a.data_focus ]

Stepped(a, down, d) ==
    IF down THEN IF Row(a)[1] + d > a.data_scroll_max - 1
                 THEN Some(a.data_scroll_max - 1) ELSE Some(Row(a)[1] + d)
    ELSE IF Row(a)[1] - d < 0 THEN Some(0) ELSE Some(Row(a)[1] - d)

\* C22: the step of the wheel is 1 when the browser starts and always lies
\* in 1..16.  A wheel event that was ready within the poll timeout moves
\* the payload row by the step and raises the step by one, up to 16: the
\* events of a run that starts at rest move by 1, 2, 3, ..., 16, 16, ....
\* A wheel event that was not ready moves by 1 and leaves the step at 1.
C22_Momentum ==
    /\ [](app # Nothing => scroll_momentum \in 1..MomentumCap)
    /\ [][(app = Nothing /\ app' # Nothing) => scroll_momentum' = 1]_vars
    /\ [][\A down \in BOOLEAN :
            (WheelFree(down, TRUE) /\ Row(app[1]) # Nothing) =>
                /\ Row(app'[1]) = Stepped(app[1], down, scroll_momentum)
                /\ scroll_momentum' =
                       IF scroll_momentum < 16 THEN scroll_momentum + 1 ELSE 16]_vars
    /\ [][\A down \in BOOLEAN :
            (WheelFree(down, FALSE) /\ Row(app[1]) # Nothing) =>
                /\ Row(app'[1]) = Stepped(app[1], down, 1)
                /\ scroll_momentum' = 1]_vars

\* C22 witness: the record's payload is at row 152 = 1 + 2 + ... + 16 + 16
\* of its 153 rows and the step is 16
C22_Witness ==
    /\ pc = "run"
    /\ scroll_momentum = MomentumCap
    /\ app[1].data_width = NarrowRow
    /\ app[1].data_scroll_max = 153
    /\ Sel(app[1]) = 2
    /\ Row(app[1]) = Some(152)

\* C23: every event that is not a wheel event and after which the loop
\* goes on (a key pressed, the left button pressed, the mouse moved, any
\* other event) leaves the step of the wheel at 1, whatever it was; the
\* frame drawn next keeps it, and the wheel event after that moves the
\* payload row by 1.
C23_OtherEventsReset ==
    /\ [][\A ready \in BOOLEAN, code \in {"j", "x"} :
            (KeyPress(code, ready) /\ Handled) => scroll_momentum' = 1]_vars
    /\ [][(\/ \E row \in Rows : Click(FocusColumn + 1, row)
           \/ MouseOther(FocusColumn + 1)
           \/ OtherEvent) => scroll_momentum' = 1]_vars
    /\ [][Drawn => scroll_momentum' = scroll_momentum]_vars
    /\ [][\A down \in BOOLEAN, ready \in BOOLEAN :
            (WheelFree(down, ready) /\ scroll_momentum = 1 /\ Row(app[1]) # Nothing) =>
                Row(app'[1]) = Stepped(app[1], down, 1)]_vars

\* C23 witness: the key j has moved the record's payload from row 136 =
\* 1 + 2 + ... + 16, where the wheel had left it with a step of 16, to row
\* 137, and the step is 1
C23_Witness ==
    /\ pc = "run"
    /\ scroll_momentum = 1
    /\ app[1].data_focus
    /\ Sel(app[1]) = 2
    /\ Row(app[1]) = Some(137)

\* b is a with an item selected: the item, the payload row restored for
\* it and the page count computed for it, nothing else
ItemSelected(a, b) ==
    \E i \in 0..(Count(a) - 1) :
        b = [a EXCEPT !.item_state.selected = Some(i),
                      !.data_state.selected = Some(CacheGet(Cache(a), i)),
                      !.data_scroll_max = b.data_scroll_max]

\* b is a with the payload row of the selected item moved and remembered,
\* nothing else
RowMoved(a, b) ==
    /\ Row(b) # Nothing
    /\ b = [a EXCEPT !.data_state.selected = Row(b),
                     !.data_scroll_cache = CacheInsert(Cache(a), Sel(a), Row(b)[1])]

\* C24: a key j, k, Down, Up, PageDown, PageUp or 0, pressed in any state
\* in which the browser waits for an event, selects an item (with the
\* payload row and the page count that go with it) and changes nothing
\* else when the item list has the focus, and moves the payload row of the
\* selected item and changes nothing else when the payload has it.  A
\* mouse event gives the focus to the payload when its column is beyond 45
\* and to the item list when it is not, and a wheel event is routed by
\* that focus.  The focus changes on no other step than a key h, l, Left
\* or Right and a mouse event.
C24_FocusRouting ==
    /\ [](pc = "poll" =>
            \A code \in {"j", "Down", "k", "Up", "PageDown", "PageUp", "0"} :
                LET r == key(app[1], code, overflow_checks)
                IN  r.ok => IF app[1].data_focus THEN RowMoved(app[1], r.app)
                            ELSE ItemSelected(app[1], r.app))
    /\ [][Handled =>
            \A column \in Columns :
                LET a == [app[1] EXCEPT !.data_focus = (column > 45)]
                IN  /\ (\E down \in BOOLEAN, ready \in BOOLEAN : Wheel(down, column, ready)) =>
                           /\ app'[1].data_focus = (column > 45)
                           /\ IF column > 45 THEN RowMoved(a, app'[1])
                              ELSE ItemSelected(a, app'[1])
                    /\ ((\E row \in Rows : Click(column, row)) \/ MouseOther(column)) =>
                           app'[1].data_focus = (column > 45)]_vars
    /\ [][(Handled /\ app'[1].data_focus # app[1].data_focus) =>
            \/ \E code \in {"l", "Right", "h", "Left"}, ready \in BOOLEAN :
                   /\ KeyPress(code, ready)
                   /\ app'[1].data_focus = (code \in {"l", "Right"})
            \/ \E column \in Columns :
                   \/ \E down \in BOOLEAN, ready \in BOOLEAN : Wheel(down, column, ready)
                   \/ \E row \in Rows : Click(column, row)
                   \/ MouseOther(column)]_vars
    /\ [][Drawn => app'[1].data_focus = app[1].data_focus]_vars

\* C24 witness: the wheel, turned over the payload, has just moved the
\* record's payload to row 1 while the item list kept its selection
C24_Witness ==
    /\ pc = "run"
    /\ scroll_momentum = 2
    /\ app[1].data_focus
    /\ Sel(app[1]) = 2
    /\ Row(app[1]) = Some(1)
    /\ app[1].data_width = NarrowRow
    /\ Cache(app[1]) = (2 :> 1)

\* C25 as stated: the loop is left on a quit key (q or Esc) and on a
\* failed read, and on nothing else: every other event is handled and the
\* loop goes on to the next frame, and every frame is drawn and the loop
\* goes on to wait for the next event.
C25_ExitOnlyOnQuit ==
    /\ [][\A ready \in BOOLEAN :
            /\ \A code \in QuitKeys : KeyPress(code, ready) => pc' = "exit"
            /\ ReadError(ready) => pc' = "exit"]_vars
    /\ [][(pc = "poll" /\ pc' # "run") =>
            /\ pc' = "exit"
            /\ \/ \E ready \in BOOLEAN, code \in QuitKeys : KeyPress(code, ready)
               \/ \E ready \in BOOLEAN : ReadError(ready)]_vars
    /\ [][(pc = "run" /\ pc' # "run") => pc' = "poll"]_vars

\* the least number of rows of w bytes that hold len bytes
RowsFor(len, w) == CHOOSE n \in 0..len : n * w >= len /\ (n = 0 \/ (n - 1) * w < len)

\* in b item i has just been selected from a: the page count is the one of
\* its payload at the row width, the payload row is the row remembered for
\* it in a, or 0
JustSelected(a, b, i) ==
    /\ Sel(b) = i
    /\ b.data_scroll_max = RowsFor(Len(b.items[i + 1].data), b.data_width)
    /\ Row(b) = Some(IF i \in DOMAIN Cache(a) THEN Cache(a)[i] ELSE 0)

\* an event that selects an item is handled
Selecting ==
    /\ pc = "poll"
    /\ \/ \E ready \in BOOLEAN, code \in {"j", "Down", "k", "PageDown", "PageUp", "0"} :
              ~app[1].data_focus /\ KeyPress(code, ready)
       \/ \E down \in BOOLEAN, ready \in BOOLEAN : Wheel(down, FocusColumn, ready)
       \/ \E row \in Rows :
              /\ app[1].item_state.offset + row - 2 \in 0..(Count(app[1]) - 1)
              /\ Click(FocusColumn, row)

\* C26: set_item_scroll(i), for every item i and in every state of the
\* browser, leaves i selected, the page count at ceil(len(payload of i) /
\* row width) and the payload row at the row remembered for i, 0 when
\* none is; so does the construction of the App for item 0, and so does
\* every event that selects an item.
C26_SelectRecomputes ==
    /\ [](app # Nothing =>
            \A i \in 0..(Count(app[1]) - 1) :
                JustSelected(app[1], set_item_scroll(app[1], i), i))
    /\ [][(app = Nothing /\ app' # Nothing) =>
            /\ JustSelected([data_scroll_cache |-> <<>>], app'[1], 0)
            /\ app'[1].data_width = 8]_vars
    /\ [][(Selecting /\ Handled) => JustSelected(app[1], app'[1], Sel(app'[1]))]_vars

\* C26 witness: the wheel, turned over the item list, has just selected
\* the record of 40 bytes while the rows are 16 bytes wide: it has 3 pages
\* and is back at row 2
C26_Witness ==
    /\ pc = "run"
    /\ scroll_momentum = 2
    /\ ~app[1].data_focus
    /\ app[1].data_width = WideRow
    /\ Sel(app[1]) = 2
    /\ app[1].data_scroll_max = 3
    /\ Row(app[1]) = Some(2)

\* C27 as stated: whenever the browser waits for an event, the page count
\* is the number of rows of the selected item's payload at the row width:
\* after the construction, after an item change and after a frame that
\* changed the row width.
C27_PagesNeverStale ==
    (pc = "poll") =>
        app[1].data_scroll_max =
            RowsFor(Len(app[1].items[Sel(app[1]) + 1].data), app[1].data_width)

\* C28 as stated: in every state of the browser the payload row is the row
\* remembered for the selected item, and row 0 when none is remembered; and
\* a move of the payload row changes the row remembered for no other item.
C28_CacheViewAgree ==
    /\ [](app # Nothing =>
            Row(app[1]) = Some(IF Sel(app[1]) \in DOMAIN Cache(app[1])
                               THEN Cache(app[1])[Sel(app[1])] ELSE 0))
    /\ [][(Handled /\ Sel(app'[1]) = Sel(app[1])) =>
            SameButFor(Cache(app[1]), Cache(app'[1]), Sel(app[1]))]_vars

\* C29: whenever a frame has been drawn, the specialized state stored is
\* the one of the selected item: its tag is specialized(selected item),
\* and none is stored when the item has no tag; the frame drawn after
\* another item has been selected replaces the tag the item before it
\* left.
C29_SpecializedFollows ==
    /\ [](pc = "poll" =>
            app[1].specialized_state = specialized(app[1].items[Sel(app[1]) + 1].entry))
    /\ [][Drawn =>
            app'[1].specialized_state = specialized(app[1].items[Sel(app[1]) + 1].entry)]_vars
    /\ [][Handled => app'[1].specialized_state = app[1].specialized_state]_vars

\* C29 witness: the padding is shown without a specialized view, after the
\* memory map, of which row 1 is remembered, had been shown with its own,
\* and the header before it
C29_Witness ==
    /\ pc = "poll"
    /\ Sel(app[1]) = 1
    /\ app[1].specialized_state = None
    /\ specialized(app[1].items[3].entry) = "MemMap"
    /\ Cache(app[1]) = (2 :> 1)

\* the effect of a move by d on the pane that has the focus: on the
\* selected item, or on the payload row
PaneMoved(a, b, down, d) ==
    IF ~a.data_focus
    THEN Sel(b) = IF down THEN Up(a, Sel(a), d) ELSE Down(Sel(a), d)
    ELSE /\ Sel(b) = Sel(a)
         /\ Row(b) = IF Row(a) = Nothing THEN Some(0) ELSE Stepped(a, down, d)

\* C30: the window height is 16 when the App is built; every frame sets it
\* to the height of the terminal (the height of the item list) less 3, and
\* to 0 when that is less than 3; no event changes it; and PageDown and
\* PageUp move the pane that has the focus by the window height.
C30_PageStep ==
    /\ [][(app = Nothing /\ app' # Nothing) => app'[1].window_height = 16]_vars
    /\ [][Drawn =>
            \E area \in SmallAreas :
                /\ draw(app[1], area, overflow_checks) = Done(app'[1])
                /\ app'[1].window_height = IF area.height < 3 THEN 0 ELSE area.height - 3]_vars
    /\ [][Handled => app'[1].window_height = app[1].window_height]_vars
    /\ [][\A ready \in BOOLEAN :
            /\ (KeyPress("PageDown", ready) /\ Handled /\ ~next_data_row_underflows(app[1])) =>
                   PaneMoved(app[1], app'[1], TRUE, app[1].window_height)
            /\ (KeyPress("PageUp", ready) /\ Handled) =>
                   PaneMoved(app[1], app'[1], FALSE, app[1].window_height)]_vars

\* C30 witness: on a terminal of 24 lines the window height is 21, and the
\* payload of the record, which has the focus, is at the last of its five
\* rows, the only row remembered
C30_Witness ==
    /\ pc = "run"
    /\ scroll_momentum = 1
    /\ app[1].window_height = 21
    /\ app[1].data_focus
    /\ Sel(app[1]) = 2
    /\ Row(app[1]) = Some(4)
    /\ Cache(app[1]) = (2 :> 4)

\* C31: a press of the left button at a column up to 45 selects the item
\* offset + row - 2 of the item list, with the payload row remembered for
\* it, when that is an item, and changes neither the selected item nor the
\* payload row when it is not; at a column beyond 45 it gives the focus to
\* the payload and changes nothing else.  In no case does it change a
\* remembered row.
C31_LeftClick ==
    [][Handled =>
        \A column \in Columns, row \in Rows :
            Click(column, row) =>
                LET i == app[1].item_state.offset + row - 2
                IN  /\ Cache(app'[1]) = Cache(app[1])
                    /\ IF column > 45
                       THEN app'[1] = [app[1] EXCEPT !.data_focus = TRUE]
                       ELSE IF i >= 0 /\ i < Count(app[1])
                       THEN /\ Sel(app'[1]) = i
                            /\ Row(app'[1]) = Some(IF i \in DOMAIN Cache(app[1])
                                                   THEN Cache(app[1])[i] ELSE 0)
                       ELSE app'[1] = [app[1] EXCEPT !.data_focus = FALSE]]_vars

\* C31 witness: the payload of the header was scrolled to row 1, and the left
\* button, pressed on line 3 of the item list, has selected the second item:
\* row 1 stays remembered for the header and the payload shows row 0
C31_Witness ==
    /\ pc = "run"
    /\ scroll_momentum = 1
    /\ ~app[1].data_focus
    /\ app[1].item_state.offset = 0
    /\ Sel(app[1]) = 1
    /\ Row(app[1]) = Some(0)
    /\ Cache(app[1]) = (0 :> 1)

\* the word with bit i, counted from the least significant, inverted
FlipBit(w, i) ==
    LET k == i \div 8 + 1
        b == 2^(i % 8)
    IN  [w EXCEPT ![k] = IF (w[k] \div b) % 2 = 1 THEN w[k] - b ELSE w[k] + b]

\* the fields of r whose value differs in s
Differing(r, s) == {f \in DOMAIN r : r[f] # s[f]}

\* C32: every field shown of a bit-packed word is a number from 0 up to its
\* bound (PMU sock 2, umc 8, dimension 2, num_1d 8, stage 65536; training
\* error sock 256, chan 256, dimm 4, rank 16), and inverting any one bit of
\* the word changes at most one field of each reading, so no bit belongs to
\* two fields.
C32_BitFields ==
    /\ pc = "done" =>
        /\ stdout = <<PmuFields(data), TrainFields(data)>>
        /\ stdout[1].sock \in 0..1
        /\ stdout[1].umc \in 0..7
        /\ stdout[1].dimension \in 0..1
        /\ stdout[1].num_1d \in 0..7
        /\ stdout[1].stage \in 0..65535
        /\ stdout[2].sock \in 0..255
        /\ stdout[2].chan \in 0..255
        /\ stdout[2].dimm \in 0..3
        /\ stdout[2].rank \in 0..15
        /\ \A i \in 0..31 :
            /\ Cardinality(Differing(stdout[1], PmuFields(FlipBit(data, i)))) <= 1
            /\ Cardinality(Differing(stdout[2], TrainFields(FlipBit(data, i)))) <= 1

\* C32 witness: a word of 32 set bits has been read both ways, and every
\* field shows the largest value it can hold
C32_Witness ==
    /\ pc = "done"
    /\ data = <<255, 255, 255, 255>>
    /\ stdout[1] = [sock |-> 1, umc |-> 7, dimension |-> 1, num_1d |-> 7,
                    stage |-> 65535]
    /\ stdout[2] = [sock |-> 255, chan |-> 255, dimm |-> 3, rank |-> 15]

====
